---- MODULE Spec2Model ----
(***************************************************************************)
(* Model of nanobot/providers/github_copilot_token.py: the Copilot token   *)
(* manager (CopilotTokenManager), its module-level singleton accessor      *)
(* (get_token_manager) and the credential file and authenticator it uses.  *)
(*                                                                         *)
(* Time is counted in ticks, TicksPerSecond ticks to the second, so that   *)
(* the fractional part of datetime.now().timestamp() is represented.       *)
(* Several callers (threads) use the module concurrently; a call that      *)
(* reads the file twice or waits for the authenticator takes several       *)
(* steps, every other method is one step.                                  *)
(***************************************************************************)
EXTENDS Integers, FiniteSets, Sequences, TLC

\* ------------------------------------------------------------------ bounds
TicksPerSecond == 2
MaxNow == 2
MaxCountArg == 12
MaxResults == 12

\* --------------------------------------------------------- program constants
REFRESH_THRESHOLD_SECONDS == 300
DefaultCount == 5
MinCount == 1
MaxCount == 10

Threshold == REFRESH_THRESHOLD_SECONDS * TicksPerSecond

Callers == {"c1", "c2"}
Tokens == {"t1", "t2"}

\* expires_at values (ticks) a record may carry: already past, around the
\* threshold (exactly 300 s ahead of time 0, a fraction above, 301 s), fresh.
ExpiryValues ==
    {0, 1, Threshold, Threshold + 1, Threshold + TicksPerSecond,
     Threshold + TicksPerSecond + 2}

\* ------------------------------------------------- contents of the key file
\* kind: "absent"   no file (open raises)
\*       "invalid"  not JSON (json.load raises)
\*       "falsy"    JSON that is no object and is falsy in Python ([], null, 0)
\*       "truthy"   JSON that is no object and is truthy ([1], "x", 7)
\*       "object"   a JSON object; hasToken/token and expKind/exp give its
\*                  "token" and "expires_at" members
\*       "None"     Python's None (never a file content, only a value)
Value(k, ht, t, ek, e) ==
    [kind |-> k, hasToken |-> ht, token |-> t, expKind |-> ek, exp |-> e]

Plain(k) == Value(k, FALSE, "", "missing", 0)

NoneValue == Plain("None")

\* The record the authenticator persists for token t expiring at e.
Record(t, e) == Value("object", TRUE, t, "number", e)

\* Objects the file may hold: whole records, and objects with a member missing
\* or of the wrong type ({} among them).
Objects ==
    {Record(t, e) : t \in Tokens, e \in ExpiryValues}
    \cup {Value("object", FALSE, "", "number", Threshold + TicksPerSecond + 2),
          Value("object", FALSE, "", "missing", 0),
          Value("object", TRUE, "t1", "missing", 0),
          Value("object", TRUE, "t1", "string", 0)}

StoreContents ==
    {Plain("absent"), Plain("invalid"), Plain("falsy"), Plain("truthy")} \cup Objects

\* ------------------------------------------------------ Python expressions
\* A Python expression evaluates to a value or raises: [exc, ...].
\* with open(self.api_key_file) as f: json.load(f)
JsonLoad(s) ==
    IF s.kind = "absent" THEN [exc |-> "FileNotFoundError", val |-> NoneValue]
    ELSE IF s.kind = "invalid" THEN [exc |-> "JSONDecodeError", val |-> NoneValue]
    ELSE [exc |-> "none", val |-> s]

\* bool(v): None, [], 0 and the empty dict {} are falsy.
Truthy(v) ==
    CASE v.kind = "None" -> FALSE
      [] v.kind = "falsy" -> FALSE
      [] v.kind = "object" -> v.hasToken \/ v.expKind # "missing"
      [] OTHER -> TRUE

\* int() replaced by math.floor().
IntOf_Floor(d) == d \div TicksPerSecond

\* Python's int() of a float given in ticks: truncation towards zero.
IntOf(d) == IF d >= 0 THEN d \div TicksPerSecond ELSE -((-d) \div TicksPerSecond)

\* data.get("expires_at", 0) - now: [exc, ticks]
ExpiresMinusNow(v, t) ==
    IF v.kind # "object" THEN [exc |-> "AttributeError", ticks |-> 0]
    ELSE IF v.expKind = "string" THEN [exc |-> "TypeError", ticks |-> 0]
    ELSE IF v.expKind = "missing" THEN [exc |-> "none", ticks |-> 0 - t]
    ELSE [exc |-> "none", ticks |-> v.exp - t]

\* is_token_usable comparing with >= instead of >.
IsTokenUsableBody_AtThreshold(s, t) ==
    LET data == JsonLoad(s) IN
    IF data.exc # "none" THEN [exc |-> data.exc, b |-> FALSE]
    ELSE LET d == ExpiresMinusNow(data.val, t) IN
         IF d.exc # "none" THEN [exc |-> d.exc, b |-> FALSE]
         ELSE [exc |-> "none", b |-> d.ticks >= Threshold]

\* ----------------------------------------------------- CopilotTokenManager
\* is_token_usable: the try body, then the except clause.
IsTokenUsableBody(s, t) ==
    LET data == JsonLoad(s) IN
    IF data.exc # "none" THEN [exc |-> data.exc, b |-> FALSE]
    ELSE LET d == ExpiresMinusNow(data.val, t) IN
         IF d.exc # "none" THEN [exc |-> d.exc, b |-> FALSE]
         ELSE [exc |-> "none", b |-> d.ticks > Threshold]

IsTokenUsable(s, t) ==
    LET r == IsTokenUsableBody(s, t) IN
    IF r.exc # "none" THEN [exc |-> "none", b |-> FALSE] ELSE r

\* get_token_info: json.load's result whatever it is, None on any exception.
GetTokenInfo(s) ==
    LET data == JsonLoad(s) IN
    IF data.exc # "none" THEN NoneValue ELSE data.val

\* info.get("token", "")
TokenField(info) ==
    IF info.kind # "object" THEN [exc |-> "AttributeError", s |-> ""]
    ELSE IF info.hasToken THEN [exc |-> "none", s |-> info.token]
    ELSE [exc |-> "none", s |-> ""]

\* needs_refresh comparing with < instead of <=.
NeedsRefresh_Strict(s, t) ==
    LET info == GetTokenInfo(s) IN
    IF ~Truthy(info) THEN [exc |-> "none", b |-> TRUE, n |-> 0]
    ELSE LET d == ExpiresMinusNow(info, t) IN
         IF d.exc # "none" THEN [exc |-> d.exc, b |-> FALSE, n |-> 0]
         ELSE LET seconds_left == IntOf(d.ticks) IN
              [exc |-> "none",
               b |-> seconds_left < REFRESH_THRESHOLD_SECONDS,
               n |-> seconds_left]

\* needs_refresh: [exc, b, n] for the tuple (b, n)
NeedsRefresh(s, t) ==
    LET info == GetTokenInfo(s) IN
    IF ~Truthy(info) THEN [exc |-> "none", b |-> TRUE, n |-> 0]
    ELSE LET d == ExpiresMinusNow(info, t) IN
         IF d.exc # "none" THEN [exc |-> d.exc, b |-> FALSE, n |-> 0]
         ELSE LET seconds_left == IntOf(d.ticks) IN
              [exc |-> "none",
               b |-> seconds_left <= REFRESH_THRESHOLD_SECONDS,
               n |-> seconds_left]

\* ------------------------------------------------------------------- state
VARIABLES
    store,        \* content of the file at api_key_file
    now,          \* the clock, in ticks
    manager,      \* the global _manager: 0 is None, else the instance's number
    constructed,  \* how many CopilotTokenManager() have been constructed
    pc,           \* each caller's position
    mgr,          \* the manager reference each caller holds (0: none yet)
    call,         \* each caller's call in progress or just returned
    acquired,     \* the token of the record the authenticator persisted last
                  \* ("" while it has persisted none)
    search        \* the search adapter's call_tool invocation

vars == <<store, now, manager, constructed, pc, mgr, call, acquired, search>>

\* The record in the file has more than the threshold left at time t.
RecordUsable(s, t) ==
    /\ s.kind = "object"
    /\ s.expKind = "number"
    /\ s.exp - t > Threshold

\* A call's record.  op: the method.  seenUsable: the file held a usable
\* record when the call was made.  seenToken: the token of the record whose
\* expiry ensure_valid_token found usable.  authCalls: invocations of get_api_key made
\* by the call; authOutcome/authRet: how the last one ended.  wrote: the call
\* changed the file.  retKind, retB, retN, retS, retJ: the value returned.
\* raised: the exception that left the call.
NoCall ==
    [op |-> "none", seenUsable |-> FALSE, seenToken |-> "", authCalls |-> 0,
     authOutcome |-> "none", authRet |-> "", wrote |-> FALSE,
     retKind |-> "unset", retB |-> FALSE, retN |-> 0, retS |-> "",
     retJ |-> NoneValue, raised |-> "none"]

Enter(op) == [NoCall EXCEPT !.op = op, !.seenUsable = RecordUsable(store, now)]

\* The search adapter's state.  pc: "idle" between invocations of call_tool,
\* "get" while the HTTP GET is awaited, "done" when call_tool has returned.
\* name, hasQuery, query, hasCount, countArg: the invocation's arguments.
\* count: the clamped count.  gets: HTTP GETs issued by the invocation.
\* backend: how many results the backend returned.  outcome: how the GET
\* ended.  kind, about, items: the text returned.  raised: the exception that
\* left call_tool.
NoSearch ==
    [pc |-> "idle", name |-> "", hasQuery |-> FALSE, query |-> "",
     hasCount |-> FALSE, countArg |-> 0, count |-> 0, gets |-> 0,
     backend |-> 0, outcome |-> "none", kind |-> "none", about |-> "",
     items |-> <<>>, raised |-> "none"]

\* The values the state takes.
TypeOK ==
    /\ store \in StoreContents
    /\ now \in 0..MaxNow
    /\ constructed \in 0..Cardinality(Callers)
    /\ manager \in 0..constructed
    /\ pc \in [Callers -> {"idle", "gtm_construct", "gtm_return", "ect_call", "ev_info", "auth", "done"}]
    /\ mgr \in [Callers -> 0..constructed]
    /\ \A c \in Callers :
         /\ call[c].authCalls \in 0..1
         /\ call[c].authOutcome \in {"none", "pending", "ok", "failed"}
         /\ call[c].authRet \in Tokens \cup {""}
         /\ call[c].retS \in Tokens \cup {""}
         /\ call[c].retJ \in StoreContents \cup {NoneValue}
         /\ pc[c] = "idle" <=> call[c] = NoCall
    /\ acquired \in Tokens \cup {""}

Init ==
    /\ store \in StoreContents
    /\ now = 0
    /\ manager = 0
    /\ constructed = 0
    /\ pc = [c \in Callers |-> "idle"]
    /\ mgr = [c \in Callers |-> 0]
    /\ call = [c \in Callers |-> NoCall]
    /\ acquired = ""
    /\ search = NoSearch

\* get_token_manager constructing a manager on every call.
GetTokenManagerTest_Always(c) ==
    /\ pc[c] = "idle"
    /\ pc' = [pc EXCEPT ![c] = "gtm_construct"]
    /\ call' = [call EXCEPT ![c] = Enter("get_token_manager")]
    /\ UNCHANGED <<store, now, manager, constructed, mgr, acquired, search>>

\* ------------------------------------------------------ get_token_manager
\* if _manager is None:
GetTokenManagerTest(c) ==
    /\ pc[c] = "idle"
    /\ pc' = [pc EXCEPT ![c] = IF manager = 0 THEN "gtm_construct" ELSE "gtm_return"]
    /\ call' = [call EXCEPT ![c] = Enter("get_token_manager")]
    /\ UNCHANGED <<store, now, manager, constructed, mgr, acquired, search>>

\* _manager = CopilotTokenManager()
GetTokenManagerConstruct(c) ==
    /\ pc[c] = "gtm_construct"
    /\ constructed' = constructed + 1
    /\ manager' = constructed + 1
    /\ pc' = [pc EXCEPT ![c] = "gtm_return"]
    /\ UNCHANGED <<store, now, mgr, call, acquired, search>>

\* return _manager: to the caller, or to ensure_copilot_token, which goes on
\* to call ensure_valid_token on the manager it got.
GetTokenManagerReturn(c) ==
    /\ pc[c] = "gtm_return"
    /\ mgr' = [mgr EXCEPT ![c] = manager]
    /\ IF call[c].op = "ensure_copilot_token"
       THEN /\ call' = call
            /\ pc' = [pc EXCEPT ![c] = "ect_call"]
       ELSE /\ call' = [call EXCEPT ![c].retKind = "ref", ![c].retN = manager]
            /\ pc' = [pc EXCEPT ![c] = "done"]
    /\ UNCHANGED <<store, now, manager, constructed, acquired, search>>

\* ---------------------------------------------------- the one-step methods
IsTokenUsableCall(c) ==
    /\ pc[c] = "idle"
    /\ mgr[c] # 0
    /\ LET r == IsTokenUsable(store, now) IN
       call' = [call EXCEPT ![c] =
                  [Enter("is_token_usable") EXCEPT
                     !.retKind = "bool", !.retB = r.b, !.raised = r.exc]]
    /\ pc' = [pc EXCEPT ![c] = "done"]
    /\ UNCHANGED <<store, now, manager, constructed, mgr, acquired, search>>

\* get_token_info removing a file it cannot parse.
GetTokenInfoCall_Removing(c) ==
    /\ pc[c] = "idle"
    /\ mgr[c] # 0
    /\ LET info == GetTokenInfo(store) IN
       call' = [call EXCEPT ![c] =
                  [Enter("get_token_info") EXCEPT
                     !.retKind = IF info.kind = "None" THEN "None" ELSE "json",
                     !.retJ = info]]
    /\ store' = IF store.kind = "invalid" THEN Plain("absent") ELSE store
    /\ pc' = [pc EXCEPT ![c] = "done"]
    /\ UNCHANGED <<now, manager, constructed, mgr, acquired, search>>

GetTokenInfoCall(c) ==
    /\ pc[c] = "idle"
    /\ mgr[c] # 0
    /\ LET info == GetTokenInfo(store) IN
       call' = [call EXCEPT ![c] =
                  [Enter("get_token_info") EXCEPT
                     !.retKind = IF info.kind = "None" THEN "None" ELSE "json",
                     !.retJ = info]]
    /\ pc' = [pc EXCEPT ![c] = "done"]
    /\ UNCHANGED <<store, now, manager, constructed, mgr, acquired, search>>

NeedsRefreshCall(c) ==
    /\ pc[c] = "idle"
    /\ mgr[c] # 0
    /\ LET r == NeedsRefresh(store, now) IN
       call' = [call EXCEPT ![c] =
                  [Enter("needs_refresh") EXCEPT
                     !.retKind = IF r.exc = "none" THEN "pair" ELSE "unset",
                     !.retB = r.b, !.retN = r.n, !.raised = r.exc]]
    /\ pc' = [pc EXCEPT ![c] = "done"]
    /\ UNCHANGED <<store, now, manager, constructed, mgr, acquired, search>>

\* ------------------------------------------------------------ authenticator
\* self._auth.get_api_key() is entered: one more invocation, not yet returned.
Invoke(cr) == [cr EXCEPT !.authCalls = @ + 1, !.authOutcome = "pending"]

\* The authenticator's error swallowed: the call returns "" instead of raising.
GetApiKeyReturn_Swallow(c) ==
    /\ pc[c] = "auth"
    /\ \/ /\ store' = store
          /\ call' = [call EXCEPT ![c].authOutcome = "failed",
                                  ![c].retKind = "str",
                                  ![c].retS = ""]
       \/ \E t \in Tokens, e \in ExpiryValues :
            /\ store' = Record(t, e)
            /\ call' = [call EXCEPT ![c].authOutcome = "ok",
                                    ![c].authRet = t,
                                    ![c].wrote = @ \/ (store' # store),
                                    ![c].retKind = "str",
                                    ![c].retS = t]
    /\ acquired' = IF store' # store THEN store'.token ELSE acquired
    /\ pc' = [pc EXCEPT ![c] = "done"]
    /\ UNCHANGED <<now, manager, constructed, mgr, search>>

\* The call retried when the authenticator raises.
GetApiKeyReturn_Retry(c) ==
    /\ pc[c] = "auth"
    /\ \/ /\ store' = store
          /\ acquired' = acquired
          /\ call' = [call EXCEPT ![c] = Invoke(call[c])]
          /\ pc' = pc
       \/ \E t \in Tokens, e \in ExpiryValues :
            /\ store' = Record(t, e)
            /\ acquired' = t
            /\ call' = [call EXCEPT ![c].authOutcome = "ok",
                                    ![c].authRet = t,
                                    ![c].wrote = @ \/ (store' # store),
                                    ![c].retKind = "str",
                                    ![c].retS = t]
            /\ pc' = [pc EXCEPT ![c] = "done"]
    /\ UNCHANGED <<now, manager, constructed, mgr, search>>

\* get_api_key() ends: it raises, or it returns a token, having written the
\* record of that token to the key file or having left the file as it was.
GetApiKeyReturn(c) ==
    /\ pc[c] = "auth"
    /\ \/ /\ store' = store
          /\ acquired' = acquired
          /\ call' = [call EXCEPT ![c].authOutcome = "failed",
                                  ![c].raised = "AuthenticatorError"]
       \/ \E t \in Tokens, persist \in BOOLEAN, e \in ExpiryValues :
            /\ persist \/ e = 0
            /\ store' = IF persist THEN Record(t, e) ELSE store
            /\ acquired' = IF persist THEN t ELSE acquired
            /\ call' = [call EXCEPT ![c].authOutcome = "ok",
                                    ![c].authRet = t,
                                    ![c].wrote = @ \/ (store' # store),
                                    ![c].retKind = "str",
                                    ![c].retS = t]
    /\ pc' = [pc EXCEPT ![c] = "done"]
    /\ UNCHANGED <<now, manager, constructed, mgr, search>>

\* ensure_valid_token returning the stored token even when it is not usable.
EnsureValidTokenCheck_Stale(c) ==
    /\ pc[c] = "idle"
    /\ mgr[c] # 0
    /\ call' = [call EXCEPT ![c] = Enter("ensure_valid_token")]
    /\ pc' = [pc EXCEPT ![c] = "ev_info"]
    /\ UNCHANGED <<store, now, manager, constructed, mgr, acquired, search>>

\* ensure_valid_token returning "" whatever the record's token.
EnsureValidTokenInfo_NoToken(c) ==
    /\ pc[c] = "ev_info"
    /\ call' = [call EXCEPT ![c].retKind = "str", ![c].retS = ""]
    /\ pc' = [pc EXCEPT ![c] = "done"]
    /\ UNCHANGED <<store, now, manager, constructed, mgr, acquired, search>>

\* ensure_valid_token asking the authenticator although its check passed.
EnsureValidTokenCheck_Eager(c) ==
    /\ pc[c] = "idle"
    /\ mgr[c] # 0
    /\ call' = [call EXCEPT ![c] = Invoke(Enter("ensure_valid_token"))]
    /\ pc' = [pc EXCEPT ![c] = "auth"]
    /\ UNCHANGED <<store, now, manager, constructed, mgr, acquired, search>>

\* ensure_valid_token refreshing although the record is usable.
EnsureValidTokenInfo_Refresh(c) ==
    /\ pc[c] = "ev_info"
    /\ call' = [call EXCEPT ![c] = Invoke(call[c])]
    /\ pc' = [pc EXCEPT ![c] = "auth"]
    /\ UNCHANGED <<store, now, manager, constructed, mgr, acquired, search>>

\* ------------------------------------------------------ ensure_valid_token
\* if self.is_token_usable(): ... else the call falls to get_api_key()
EnsureValidTokenCheck(c) ==
    /\ pc[c] = "idle"
    /\ mgr[c] # 0
    /\ LET r == IsTokenUsable(store, now)
           e == Enter("ensure_valid_token")
       IN  IF r.b
           THEN /\ call' = [call EXCEPT ![c] =
                              [e EXCEPT !.seenToken = TokenField(store).s]]
                /\ pc' = [pc EXCEPT ![c] = "ev_info"]
           ELSE /\ call' = [call EXCEPT ![c] = Invoke(e)]
                /\ pc' = [pc EXCEPT ![c] = "auth"]
    /\ UNCHANGED <<store, now, manager, constructed, mgr, acquired, search>>

\* info = self.get_token_info(); if info: return info.get("token", "")
EnsureValidTokenInfo(c) ==
    /\ pc[c] = "ev_info"
    /\ LET info == GetTokenInfo(store)
           cr == call[c]
       IN  IF Truthy(info)
           THEN LET tf == TokenField(info) IN
                /\ call' = [call EXCEPT ![c] =
                              [cr EXCEPT
                                 !.retKind = IF tf.exc = "none" THEN "str" ELSE "unset",
                                 !.retS = tf.s, !.raised = tf.exc]]
                /\ pc' = [pc EXCEPT ![c] = "done"]
           ELSE /\ call' = [call EXCEPT ![c] = Invoke(cr)]
                /\ pc' = [pc EXCEPT ![c] = "auth"]
    /\ UNCHANGED <<store, now, manager, constructed, mgr, acquired, search>>

\* refresh answering from the file when the record is usable.
Refresh_ShortCircuit(c) ==
    /\ pc[c] = "idle"
    /\ mgr[c] # 0
    /\ LET r == IsTokenUsable(store, now)
           e == Enter("refresh")
       IN  IF r.b
           THEN /\ call' = [call EXCEPT ![c] =
                              [e EXCEPT !.retKind = "str",
                                        !.retS = TokenField(store).s]]
                /\ pc' = [pc EXCEPT ![c] = "done"]
           ELSE /\ call' = [call EXCEPT ![c] = Invoke(e)]
                /\ pc' = [pc EXCEPT ![c] = "auth"]
    /\ UNCHANGED <<store, now, manager, constructed, mgr, acquired, search>>

\* ----------------------------------------------------------------- refresh
Refresh(c) ==
    /\ pc[c] = "idle"
    /\ mgr[c] # 0
    /\ call' = [call EXCEPT ![c] = Invoke(Enter("refresh"))]
    /\ pc' = [pc EXCEPT ![c] = "auth"]
    /\ UNCHANGED <<store, now, manager, constructed, mgr, acquired, search>>

\* ----------------------------------------------------- ensure_copilot_token
\* get_token_manager(): if _manager is None
EnsureCopilotTokenTest(c) ==
    /\ pc[c] = "idle"
    /\ pc' = [pc EXCEPT ![c] = IF manager = 0 THEN "gtm_construct" ELSE "gtm_return"]
    /\ call' = [call EXCEPT ![c] = Enter("ensure_copilot_token")]
    /\ UNCHANGED <<store, now, manager, constructed, mgr, acquired, search>>

\* .ensure_valid_token() on the manager get_token_manager() returned
EnsureCopilotTokenEnsure(c) ==
    /\ pc[c] = "ect_call"
    /\ LET r == IsTokenUsable(store, now)
           e == Enter("ensure_valid_token")
       IN  IF r.b
           THEN /\ call' = [call EXCEPT ![c] =
                              [e EXCEPT !.seenToken = TokenField(store).s]]
                /\ pc' = [pc EXCEPT ![c] = "ev_info"]
           ELSE /\ call' = [call EXCEPT ![c] = Invoke(e)]
                /\ pc' = [pc EXCEPT ![c] = "auth"]
    /\ UNCHANGED <<store, now, manager, constructed, mgr, acquired, search>>

\* ------------------------------------------------------------------- clock
Tick ==
    /\ now < MaxNow
    /\ now' = now + 1
    /\ UNCHANGED <<store, manager, constructed, pc, mgr, call, acquired, search>>

\* The caller takes the result and is ready for its next call.
Return(c) ==
    /\ pc[c] = "done"
    /\ pc' = [pc EXCEPT ![c] = "idle"]
    /\ call' = [call EXCEPT ![c] = NoCall]
    /\ UNCHANGED <<store, now, manager, constructed, mgr, acquired, search>>

Next ==
    \/ Tick
    \/ \E c \in Callers :
         \/ GetTokenManagerTest(c)
         \/ GetTokenManagerConstruct(c)
         \/ GetTokenManagerReturn(c)
         \/ IsTokenUsableCall(c)
         \/ GetTokenInfoCall(c)
         \/ NeedsRefreshCall(c)
         \/ EnsureValidTokenCheck(c)
         \/ EnsureValidTokenInfo(c)
         \/ Refresh(c)
         \/ GetApiKeyReturn(c)
         \/ EnsureCopilotTokenTest(c)
         \/ EnsureCopilotTokenEnsure(c)
         \/ Return(c)

Spec == Init /\ [][Next]_vars

\* ============================================== mcp-servers/searxng_server.py
tokenVars == <<store, now, manager, constructed, pc, mgr, call, acquired>>

ToolNames == {"web_search", "web_fetch"}
Queries == {"", "tla", "nanobot"}
CountArgs == (0 - 2)..MaxCountArg

Min(a, b) == IF a <= b THEN a ELSE b
Max(a, b) == IF a >= b THEN a ELSE b

\* min(count, 10): the lower limit forgotten.
ClampCount_NoFloor(n) == Min(n, MaxCount)

\* min(max(arguments.get("count", 5), 1), 10), on the value got
ClampCount(n) == Min(Max(n, MinCount), MaxCount)

\* seq[:k] in Python: the first k elements, or all but the last -k.
Slice(seq, k) ==
    IF k >= 0 THEN SubSeq(seq, 1, Min(k, Len(seq)))
    ELSE SubSeq(seq, 1, Max(Len(seq) + k, 0))

\* data.get("results", []) when the backend found n pages: their ids, in the
\* backend's order.
BackendResults(n) == [i \in 1..n |-> 2 * (n - i) + 1]

\* for i, item in enumerate(results, 1): the numbered entries of the text
Listing(results) == [i \in 1..Len(results) |-> <<i, results[i]>>]

\* call_tool issuing the GET before it looks at the query.
SearchCallTool_GetFirst ==
    /\ search.pc = "idle"
    /\ \E name \in ToolNames, hq \in BOOLEAN, q \in Queries,
          hc \in BOOLEAN, n \in CountArgs :
         /\ hq \/ q = ""
         /\ hc \/ n = 0
         /\ LET s0 == [NoSearch EXCEPT !.name = name, !.hasQuery = hq, !.query = q,
                                        !.hasCount = hc, !.countArg = n]
            IN  IF name # "web_search"
                THEN search' = [s0 EXCEPT !.pc = "done", !.kind = "unknown_tool",
                                          !.about = name]
                ELSE search' = [s0 EXCEPT !.pc = "get", !.gets = 1,
                                  !.count = ClampCount(IF hc THEN n ELSE DefaultCount)]
    /\ UNCHANGED tokenVars

\* call_tool up to the GET: the tool's name, the arguments, the empty query.
SearchCallTool ==
    /\ search.pc = "idle"
    /\ \E name \in ToolNames, hq \in BOOLEAN, q \in Queries,
          hc \in BOOLEAN, n \in CountArgs :
         /\ hq \/ q = ""
         /\ hc \/ n = 0
         /\ LET s0 == [NoSearch EXCEPT !.name = name, !.hasQuery = hq, !.query = q,
                                        !.hasCount = hc, !.countArg = n]
                query == IF hq THEN q ELSE ""
                count == ClampCount(IF hc THEN n ELSE DefaultCount)
            IN  IF name # "web_search"
                THEN search' = [s0 EXCEPT !.pc = "done", !.kind = "unknown_tool",
                                          !.about = name]
                ELSE IF query = ""
                THEN search' = [s0 EXCEPT !.pc = "done", !.count = count,
                                          !.kind = "query_required"]
                ELSE search' = [s0 EXCEPT !.pc = "get", !.count = count, !.gets = 1]
    /\ UNCHANGED tokenVars

\* The GET ends: an httpx.HTTPError (no connection, timeout, error status),
\* another exception (a body that is not JSON), or n results; the text
\* call_tool returns for each.
SearchGetResponse ==
    /\ search.pc = "get"
    /\ \/ search' = [search EXCEPT !.pc = "done", !.outcome = "HTTPError",
                                    !.kind = "http_error"]
       \/ search' = [search EXCEPT !.pc = "done", !.outcome = "Exception",
                                    !.kind = "error"]
       \/ \E n \in 0..MaxResults :
            LET results == Slice(BackendResults(n), search.count) IN
            IF results = <<>>
            THEN search' = [search EXCEPT !.pc = "done", !.outcome = "ok",
                                          !.backend = n, !.kind = "no_results",
                                          !.about = search.query]
            ELSE search' = [search EXCEPT !.pc = "done", !.outcome = "ok",
                                          !.backend = n, !.kind = "results",
                                          !.about = search.query,
                                          !.items = Listing(results)]
    /\ UNCHANGED tokenVars

\* The server takes the text and is ready for the next invocation.
SearchReturn ==
    /\ search.pc = "done"
    /\ search' = NoSearch
    /\ UNCHANGED tokenVars

SearchInit ==
    /\ store = Plain("absent")
    /\ now = 0
    /\ manager = 0
    /\ constructed = 0
    /\ pc = [c \in Callers |-> "idle"]
    /\ mgr = [c \in Callers |-> 0]
    /\ call = [c \in Callers |-> NoCall]
    /\ acquired = ""
    /\ search = NoSearch

SearchNext ==
    \/ SearchCallTool
    \/ SearchGetResponse
    \/ SearchReturn

SearchSpec == SearchInit /\ [][SearchNext]_vars

\* ======================================= github_copilot_token.py, continued
\* Sequential runs: a caller takes a step only while no other caller is
\* inside a call.
SeqNext ==
    \/ Tick
    \/ \E c \in Callers :
         /\ \A d \in Callers \ {c} : pc[d] \in {"idle", "done"}
         /\ \/ GetTokenManagerTest(c)
            \/ GetTokenManagerConstruct(c)
            \/ GetTokenManagerReturn(c)
            \/ IsTokenUsableCall(c)
            \/ GetTokenInfoCall(c)
            \/ NeedsRefreshCall(c)
            \/ EnsureValidTokenCheck(c)
            \/ EnsureValidTokenInfo(c)
            \/ Refresh(c)
            \/ GetApiKeyReturn(c)
            \/ EnsureCopilotTokenTest(c)
            \/ EnsureCopilotTokenEnsure(c)
            \/ Return(c)

SeqSpec == Init /\ [][SeqNext]_vars

\* ================================================================== claims
\* Caller c's call of method op returns (or raises) in this step.
Returns(c, op) == pc[c] # "done" /\ pc'[c] = "done" /\ call'[c].op = op

Finished(c, op) == pc[c] = "done" /\ call[c].op = op

\* The token member of the record in the file ("" when it has none).
StoredToken(s) == IF s.kind = "object" /\ s.hasToken THEN s.token ELSE ""

\* expires_at - now of the record in the file, in ticks (a missing expires_at
\* counts as 0).
Remaining(s, t) == (IF s.expKind = "number" THEN s.exp ELSE 0) - t

\* C1: is_token_usable never raises, and answers True exactly when the file
\* holds a record whose numeric expires_at is more than 300 s after the clock;
\* with exactly 300 s left, less, a past or a missing expires_at, an absent or
\* malformed file, it answers False.
C1_UsableIffBeyondThreshold ==
    [][\A c \in Callers :
         Returns(c, "is_token_usable") =>
           /\ call'[c].raised = "none"
           /\ call'[c].retKind = "bool"
           /\ call'[c].retB <=> RecordUsable(store, now)]_vars

\* is_token_usable has answered True for a record with 300.5 s left.
C1_Witness ==
    \E c \in Callers :
      /\ Finished(c, "is_token_usable")
      /\ call[c].retB
      /\ store.kind = "object" /\ store.expKind = "number"
      /\ store.exp - now = Threshold + 1

\* C2: a call of ensure_valid_token made on a usable record never invokes the
\* authenticator and never changes the file, and it returns the token member
\* of the record in the file.
C2_UsableReturnsStoredToken ==
    [][\A c \in Callers :
         (pc'[c] # pc[c] /\ call'[c].op = "ensure_valid_token" /\ call'[c].seenUsable) =>
           /\ store' = store
           /\ call'[c].authCalls = 0
           /\ ~call'[c].wrote
           /\ pc'[c] = "done" =>
                /\ call'[c].raised = "none"
                /\ call'[c].retKind = "str"
                /\ call'[c].retS = StoredToken(store)]_vars

\* ensure_valid_token, called on a usable record, has returned its token.
C2_Witness ==
    \E c \in Callers :
      /\ Finished(c, "ensure_valid_token")
      /\ call[c].seenUsable
      /\ call[c].authCalls = 0
      /\ call[c].retS \in Tokens
      /\ call[c].retS = StoredToken(store)

\* C3: a call of ensure_valid_token made when the file holds no usable record
\* (absent, malformed, 300 s or less left) invokes the authenticator exactly
\* once, never a second time, and returns the very token the authenticator
\* returned.
C3_UnusableInvokesOnce ==
    \A c \in Callers :
      (call[c].op = "ensure_valid_token" /\ ~call[c].seenUsable) =>
        /\ call[c].authCalls = 1
        /\ pc[c] \in {"auth", "done"}
        /\ pc[c] = "done" =>
             /\ call[c].authOutcome \in {"ok", "failed"}
             /\ call[c].authOutcome = "ok" =>
                  /\ call[c].raised = "none"
                  /\ call[c].retKind = "str"
                  /\ call[c].retS = call[c].authRet

\* ensure_valid_token, called on a record that is not usable, has returned the
\* authenticator's token while the file still holds another, stale one.
C3_Witness ==
    \E c \in Callers :
      /\ Finished(c, "ensure_valid_token")
      /\ ~call[c].seenUsable
      /\ call[c].authOutcome = "ok"
      /\ call[c].authCalls = 1
      /\ call[c].retS = call[c].authRet
      /\ store.kind = "object" /\ store.hasToken /\ store.token # call[c].retS

\* C4: whatever the interleaving of the callers of get_token_manager, all the
\* references they hold are to one instance, and one manager at most has been
\* constructed.
C4_OneInstance ==
    /\ constructed <= 1
    /\ \A c, d \in Callers : (mgr[c] # 0 /\ mgr[d] # 0) => mgr[c] = mgr[d]

\* The file is absent, is not JSON, or is JSON that is no object.
Malformed(s) == s.kind \in {"absent", "invalid", "falsy", "truthy"}

\* C5: on an absent or malformed file is_token_usable returns False and
\* get_token_info returns None, neither raising.
C5_MalformedIsAbsent ==
    [][\A c \in Callers :
         Malformed(store) =>
           /\ Returns(c, "is_token_usable") =>
                call'[c].raised = "none" /\ ~call'[c].retB
           /\ Returns(c, "get_token_info") =>
                call'[c].raised = "none" /\ call'[c].retKind = "None"]_vars

\* C6: is_token_usable and needs_refresh never raise, whatever the file holds.
C6_QueriesNeverRaise ==
    \A c \in Callers :
      (Finished(c, "is_token_usable") \/ Finished(c, "needs_refresh")) =>
        call[c].raised = "none"

\* A record needs_refresh can work on: a non-empty object whose expires_at is
\* a number or is missing.
Obtainable(s) ==
    /\ s.kind = "object"
    /\ s.expKind \in {"number", "missing"}
    /\ s.hasToken \/ s.expKind = "number"

\* n is the floor of d ticks in seconds.
FloorOf(d, n) == n * TicksPerSecond <= d /\ d < (n + 1) * TicksPerSecond

\* n is d ticks in seconds with the fraction dropped (rounded towards zero).
TruncationOf(d, n) == IF d >= 0 THEN FloorOf(d, n) ELSE FloorOf(-d, -n)

\* C7 as stated: on an obtainable record needs_refresh returns
\* (seconds_left <= 300, seconds_left) with seconds_left the floor of
\* expires_at - now.
C7_SecondsLeftIsFloor ==
    [][\A c \in Callers :
         (Returns(c, "needs_refresh") /\ Obtainable(store)) =>
           /\ call'[c].raised = "none"
           /\ FloorOf(Remaining(store, now), call'[c].retN)
           /\ call'[c].retB <=> call'[c].retN <= REFRESH_THRESHOLD_SECONDS]_vars

\* C7 as amended: on an obtainable record needs_refresh returns
\* (seconds_left <= 300, seconds_left) with seconds_left being
\* expires_at - now rounded towards zero, negative values reported as they
\* are, and 300 on the refresh side of the boundary.
C7_SecondsLeftIsTruncation ==
    [][\A c \in Callers :
         (Returns(c, "needs_refresh") /\ Obtainable(store)) =>
           /\ call'[c].raised = "none"
           /\ call'[c].retKind = "pair"
           /\ TruncationOf(Remaining(store, now), call'[c].retN)
           /\ call'[c].retB <=> call'[c].retN <= REFRESH_THRESHOLD_SECONDS]_vars

\* needs_refresh has answered (True, 0) for a record that expired a fraction
\* of a second ago.
C7_Witness ==
    \E c \in Callers :
      /\ Finished(c, "needs_refresh")
      /\ Obtainable(store)
      /\ Remaining(store, now) = -1
      /\ call[c].retB /\ call[c].retN = 0

\* C8: refresh invokes the authenticator exactly once whatever the file
\* holds, and returns the token the authenticator returned.
C8_RefreshAlwaysInvokes ==
    \A c \in Callers :
      call[c].op = "refresh" =>
        /\ call[c].authCalls = 1
        /\ pc[c] \in {"auth", "done"}
        /\ pc[c] = "done" =>
             /\ call[c].authOutcome \in {"ok", "failed"}
             /\ call[c].authOutcome = "ok" =>
                  /\ call[c].raised = "none"
                  /\ call[c].retKind = "str"
                  /\ call[c].retS = call[c].authRet

\* refresh, called while the file held a usable record, has returned the
\* token of the one authenticator invocation it made.
C8_Witness ==
    \E c \in Callers :
      /\ Finished(c, "refresh")
      /\ call[c].seenUsable
      /\ call[c].authCalls = 1
      /\ call[c].authOutcome = "ok"

\* C9: ensure_valid_token and refresh raise exactly when the authenticator
\* they invoked raised, they raise the authenticator's error and nothing
\* else, after one invocation and without returning a value.
C9_OnlyAuthenticatorErrors ==
    \A c \in Callers :
      (Finished(c, "ensure_valid_token") \/ Finished(c, "refresh")) =>
        /\ call[c].raised \in {"none", "AuthenticatorError"}
        /\ call[c].raised = "AuthenticatorError" <=> call[c].authOutcome = "failed"
        /\ call[c].raised # "none" =>
             call[c].authCalls = 1 /\ call[c].retKind = "unset"

\* ensure_valid_token has raised the authenticator's error.
C9_Witness ==
    \E c \in Callers :
      /\ Finished(c, "ensure_valid_token")
      /\ call[c].authOutcome = "failed"
      /\ call[c].raised = "AuthenticatorError"

\* C10: the file changes only in the step in which an authenticator
\* invocation made by ensure_valid_token or refresh returns; is_token_usable,
\* get_token_info and needs_refresh leave it as it is and never invoke the
\* authenticator.
C10_OnlyAuthenticatorWrites ==
    [][/\ store' # store =>
            \E c \in Callers :
              /\ pc[c] = "auth" /\ pc'[c] = "done"
              /\ call[c].op \in {"ensure_valid_token", "refresh"}
              /\ call[c].authCalls = 1
       /\ \A c \in Callers :
            (\/ Returns(c, "is_token_usable")
             \/ Returns(c, "get_token_info")
             \/ Returns(c, "needs_refresh")) =>
              /\ store' = store
              /\ call'[c].authCalls = 0
              /\ ~call'[c].wrote]_vars

\* A call of ensure_valid_token or refresh has changed the file, through the
\* authenticator, while the other caller holds the answer of a query.
C10_Witness ==
    \E c, d \in Callers :
      /\ call[c].op \in {"ensure_valid_token", "refresh"}
      /\ pc[c] = "done"
      /\ call[c].wrote
      /\ call[d].op \in {"is_token_usable", "get_token_info", "needs_refresh"}
      /\ pc[d] = "done"

\* C11: in sequential runs the manager is constructed by the first call of
\* get_token_manager (or of ensure_copilot_token) and not before, once only;
\* every call returns the one instance, and the global, once set, never
\* changes again.
C11_LazySingleton ==
    [][/\ manager' # manager =>
            /\ manager = 0 /\ constructed = 0
            /\ \E c \in Callers : pc[c] = "gtm_construct" /\ pc'[c] = "gtm_return"
       /\ constructed' # constructed => manager' # manager
       /\ constructed' <= 1
       /\ \A c \in Callers :
            (pc[c] = "gtm_return" /\ pc'[c] # "gtm_return") =>
              /\ manager # 0
              /\ mgr'[c] = manager
              /\ \A d \in Callers : mgr[d] # 0 => mgr[d] = mgr'[c]]_vars

\* One caller holds the manager get_token_manager returned, and
\* ensure_copilot_token, called by the other, has got the same one without
\* a second construction.
C11_Witness ==
    \E c, d \in Callers :
      /\ c # d
      /\ constructed = 1
      /\ mgr[c] = 1 /\ pc[c] \in {"idle", "done"}
      /\ pc[d] = "ect_call" /\ mgr[d] = 1

\* C12: needs_refresh returns (True, 0) when the file is absent, is not
\* JSON, or is JSON that holds no record.
C12_NoRecordGivesTrueZero ==
    [][\A c \in Callers :
         (Returns(c, "needs_refresh") /\ Malformed(store)) =>
           /\ call'[c].raised = "none"
           /\ call'[c].retKind = "pair"
           /\ call'[c].retB /\ call'[c].retN = 0]_vars

\* C13: every call of ensure_valid_token invokes the authenticator at most
\* once, and is waiting for it exactly while its one invocation is pending;
\* nothing keeps the invocations of different callers apart (the witness:
\* all callers wait for the authenticator at the same time).
C13_AtMostOncePerCall ==
    \A c \in Callers :
      call[c].op = "ensure_valid_token" =>
        /\ call[c].authCalls <= 1
        /\ pc[c] = "auth" <=> call[c].authOutcome = "pending"
        /\ pc[c] = "auth" => call[c].authCalls = 1

\* Every caller called ensure_valid_token on a record that was not usable,
\* and the invocations of the authenticator are all in flight together.
C13_Witness ==
    /\ Cardinality(Callers) > 1
    /\ \A c \in Callers :
         /\ pc[c] = "auth"
         /\ call[c].op = "ensure_valid_token"
         /\ ~call[c].seenUsable
         /\ call[c].authOutcome = "pending"

\* C14 as stated: when ensure_valid_token returns without having invoked the
\* authenticator, it returns the token of the record its check read.
C14_TokenOfCheckedRecord ==
    \A c \in Callers :
      (Finished(c, "ensure_valid_token") /\ call[c].authCalls = 0) =>
        call[c].retS = call[c].seenToken

\* C14 as amended: when ensure_valid_token returns without having invoked
\* the authenticator, it returns the token of the record in the file at its
\* second read: that of the record its check read, or that of the record the
\* authenticator persisted last.
C14_TokenOfRecordRead ==
    [][\A c \in Callers :
         (Returns(c, "ensure_valid_token") /\ call'[c].authCalls = 0) =>
           /\ call'[c].retS = StoredToken(store)
           /\ \/ call'[c].retS = call'[c].seenToken
              \/ acquired # "" /\ call'[c].retS = acquired]_vars

\* ensure_valid_token has returned, without invoking the authenticator, a
\* token that is not the one of the record its check read.
C14_Witness ==
    \E c \in Callers :
      /\ Finished(c, "ensure_valid_token")
      /\ call[c].authCalls = 0
      /\ call[c].seenToken \in Tokens
      /\ call[c].retS # call[c].seenToken
      /\ call[c].retS = acquired

\* C15 as stated: on every readable record the flag of needs_refresh is the
\* negation of is_token_usable on the same file at the same instant.
C15_QueriesAgree ==
    [][\A c \in Callers :
         (Returns(c, "needs_refresh") /\ Obtainable(store)) =>
           /\ call'[c].raised = "none"
           /\ call'[c].retB <=> ~IsTokenUsable(store, now).b]_vars

\* C15 as amended: the two agree except when more than 300 s and less than
\* 301 s are left, where is_token_usable is True and the flag is True too.
C15_QueriesAgreeOffBoundary ==
    [][\A c \in Callers :
         (Returns(c, "needs_refresh") /\ Obtainable(store)) =>
           LET d == Remaining(store, now)
               between == Threshold < d /\ d < Threshold + TicksPerSecond
           IN  /\ call'[c].raised = "none"
               /\ ~between => (call'[c].retB <=> ~IsTokenUsable(store, now).b)
               /\ between => (call'[c].retB /\ IsTokenUsable(store, now).b)]_vars

\* needs_refresh has answered True for a record with 300.5 s left, which
\* is_token_usable finds usable.
C15_Witness ==
    \E c \in Callers :
      /\ Finished(c, "needs_refresh")
      /\ Obtainable(store)
      /\ Remaining(store, now) = Threshold + 1
      /\ call[c].retB
      /\ IsTokenUsable(store, now).b

\* C16: in sequential runs, once the authenticator has persisted a record,
\* every call of ensure_valid_token made while the record in the file has
\* more than 300 s left returns the token of that acquisition, invokes no
\* authenticator and leaves the file as it is.
C16_RefreshIsCached ==
    [][\A c \in Callers :
         (/\ Returns(c, "ensure_valid_token")
          /\ call'[c].seenUsable
          /\ acquired # "") =>
           /\ call'[c].authCalls = 0
           /\ call'[c].raised = "none"
           /\ ~call'[c].wrote
           /\ call'[c].retS = acquired
           /\ store' = store /\ acquired' = acquired
           /\ StoredToken(store) = acquired]_vars

\* After an acquisition that persisted a record, ensure_valid_token has
\* returned that record's token from the file.
C16_Witness ==
    \E c \in Callers :
      /\ Finished(c, "ensure_valid_token")
      /\ call[c].seenUsable
      /\ acquired \in Tokens
      /\ call[c].authCalls = 0
      /\ call[c].retS = acquired

Clamped(s) ==
    LET n == IF s.hasCount THEN s.countArg ELSE 5 IN
    IF n < 1 THEN 1 ELSE IF n > 10 THEN 10 ELSE n

\* C18: web_search lists min(results of the backend, count clamped to 1..10)
\* results, numbered from 1 in the backend's order; with no result from the
\* backend it reports "No results for: <query>".
C18_ListsClampedCount ==
    (search.pc = "done" /\ search.outcome = "ok") =>
      LET all == BackendResults(search.backend)
          k == IF search.backend <= Clamped(search) THEN search.backend
               ELSE Clamped(search)
      IN  /\ search.about = search.query
          /\ search.backend = 0 => search.kind = "no_results"
          /\ search.backend > 0 =>
               /\ search.kind = "results"
               /\ Len(search.items) = k
               /\ k >= 1 /\ k <= 10
               /\ \A i \in 1..k : search.items[i] = <<i, all[i]>>

\* The backend returned more than ten results, the count asked for was
\* above ten, and ten are listed.
C18_Witness ==
    /\ search.pc = "done" /\ search.outcome = "ok"
    /\ search.hasCount /\ search.countArg > 10
    /\ search.backend > 10
    /\ Len(search.items) = 10

====
